---- MODULE Spec2Model ----
(***************************************************************************)
(* Model of app.py: the memoized table builder fetch_co2_data and the      *)
(* Streamlit script that filters the table by year, shows two metrics and  *)
(* feeds a choropleth and a top-10 bar chart.                              *)
(*                                                                         *)
(* JSON values are tagged records.  Text whose characters matter (period   *)
(* labels and values delivered as text) is a sequence of one-character     *)
(* strings; emission values are held in tenths (15.2 is 152).              *)
(***************************************************************************)
EXTENDS Integers, Sequences, FiniteSets, TLC

VARIABLES source, cache, requests, slider, view

vars == <<source, cache, requests, slider, view>>

(* ---------------------------- bounds ----------------------------------- *)
MaxObs == 2
NumSessions == 2
MaxRequests == 2

(* ------------------------- program constants --------------------------- *)
TopN == 10

(* --------------------------- JSON values ------------------------------- *)
ABSENT == [t |-> "absent"]
NULL == [t |-> "null"]
Str(s) == [t |-> "str", s |-> s]
Txt(c) == [t |-> "txt", c |-> c]
Num(n) == [t |-> "num", n |-> n]
Obj(id, value) == [t |-> "obj", id |-> id, value |-> value]

Meta == [t |-> "obj", nkeys |-> 0]
Arr(items) == [t |-> "arr", items |-> items]

Obs(country, iso, date, value) ==
    [country |-> country, countryiso3code |-> iso, date |-> date, value |-> value]

(* pandas isna: None and NaN (a key absent from a record becomes NaN) *)
isna(x) == x.t \in {"absent", "null"}

(* ----------------------------- text ------------------------------------ *)
Digits == <<"0", "1", "2", "3", "4", "5", "6", "7", "8", "9">>

IsDigit(c) == \E i \in 1..10 : Digits[i] = c

DigitVal(c) == (CHOOSE i \in 1..10 : Digits[i] = c) - 1

(* code points of the characters the labels and values use *)
CharCode(c) ==
    IF IsDigit(c) THEN 48 + DigitVal(c)
    ELSE IF c = "." THEN 46
    ELSE IF c = "R" THEN 82
    ELSE IF c = "Y" THEN 89
    ELSE 0

RECURSIVE DigitsValue(_)
DigitsValue(s) ==
    IF s = << >> THEN 0
    ELSE 10 * DigitsValue(SubSeq(s, 1, Len(s) - 1)) + DigitVal(s[Len(s)])

AllDigits(s) == Len(s) > 0 /\ \A i \in 1..Len(s) : IsDigit(s[i])

(* Python str comparison: lexicographic by code point *)
RECURSIVE LexLess(_, _)
LexLess(a, b) ==
    IF b = << >> THEN FALSE
    ELSE IF a = << >> THEN TRUE
    ELSE IF CharCode(a[1]) # CharCode(b[1]) THEN CharCode(a[1]) < CharCode(b[1])
    ELSE LexLess(Tail(a), Tail(b))

(* int(x) of one cell of the year column; ok = FALSE is a raised exception *)
IntOf(x) ==
    IF x.t = "num" THEN [ok |-> TRUE, n |-> x.n]
    ELSE IF x.t = "txt" /\ AllDigits(x.c) THEN [ok |-> TRUE, n |-> DigitsValue(x.c)]
    ELSE [ok |-> FALSE, n |-> 0]

(* float(s) of decimal text, in tenths; text outside d+ and d+.d is refused *)
FloatOf(s) ==
    IF AllDigits(s) THEN [ok |-> TRUE, n |-> 10 * DigitsValue(s)]
    ELSE IF /\ Len(s) >= 3
            /\ s[Len(s) - 1] = "."
            /\ IsDigit(s[Len(s)])
            /\ AllDigits(SubSeq(s, 1, Len(s) - 2))
         THEN [ok |-> TRUE,
               n |-> 10 * DigitsValue(SubSeq(s, 1, Len(s) - 2)) + DigitVal(s[Len(s)])]
    ELSE [ok |-> FALSE, n |-> 0]

(* --------------------------- data frames ------------------------------- *)
EmptyDF == [columns |-> {}, rows |-> << >>]

Empty(df) == Len(df.rows) = 0

OutColumns == {"economy", "Country", "year", "co2_per_capita"}

(* columns of pd.DataFrame(records): the union of the records' keys *)
Columns(records) ==
    {k \in {"country", "countryiso3code", "date", "value"} :
        \E i \in 1..Len(records) : records[i][k] # ABSENT}

(* mutant: the nested object's id is taken for the name *)
CountryName_id(x) == IF x.t = "obj" THEN x.id ELSE ""

(* line 85: the nested object's value, '' for anything that is no dict *)
CountryName(x) == IF x.t = "obj" THEN x.value ELSE ""

(* line 86 *)
Economy(o) == o.countryiso3code

(* line 91 *)
KeepValue(r) == ~ isna(r.co2_per_capita)

(* mutant: the test against '' is forgotten *)
KeepEconomy_notna(r) == ~ isna(r.economy)

(* line 92 *)
KeepEconomy(r) == ~ isna(r.economy) /\ r.economy # Str("")

Returned(df) == [raised |-> FALSE, df |-> df]
Raised == [raised |-> TRUE, df |-> EmptyDF]

(* lines 80-94, on a non-empty list of observation records *)
Normalize(records) ==
    LET cols == Columns(records)
        years == [i \in 1..Len(records) |-> IntOf(records[i].date)]
        frame == [i \in 1..Len(records) |->
                    [economy |-> Economy(records[i]),
                     Country |-> CountryName(records[i].country),
                     year |-> years[i].n,
                     co2_per_capita |-> records[i].value]]
        kept == SelectSeq(frame, LAMBDA r : KeepValue(r) /\ KeepEconomy(r))
    IN  IF ~ {"country", "value", "countryiso3code"} \subseteq cols
        THEN Returned(EmptyDF)
        ELSE IF "date" \notin cols THEN Raised
        ELSE IF \E i \in 1..Len(records) : ~ years[i].ok THEN Raised
        ELSE Returned([columns |-> OutColumns, rows |-> kept])

(* lines 70-94: the body of the try block *)
TryBody(resp) ==
    IF resp.kind = "transport_error" THEN Raised
    ELSE IF resp.kind = "not_json" THEN Raised
    ELSE LET data == resp.data IN
        IF data.t \in {"num", "null"} THEN Raised
        ELSE IF data.t = "obj"
             THEN IF data.nkeys < 2 THEN Returned(EmptyDF) ELSE Raised
        ELSE IF Len(data.items) < 2 THEN Returned(EmptyDF)
        ELSE LET records == data.items[2] IN
            IF records.t = "null" THEN Returned(EmptyDF)
            ELSE IF records.t = "obj"
                 THEN IF records.nkeys = 0 THEN Returned(EmptyDF) ELSE Raised
            ELSE IF Len(records.items) = 0 THEN Returned(EmptyDF)
            ELSE Normalize(records.items)

(* mutant: no except clause, the exception leaves the function *)
fetch_co2_data_noexcept(resp) == TryBody(resp)

(* lines 69-97: try / except Exception *)
fetch_co2_data(resp) ==
    LET r == TryBody(resp)
    IN  IF r.raised THEN Returned(EmptyDF) ELSE r

(* ------------------------- presentation -------------------------------- *)
Min(S) == CHOOSE x \in S : \A y \in S : x <= y
Max(S) == CHOOSE x \in S : \A y \in S : x >= y

YearsOf(df) == {df.rows[i].year : i \in 1..Len(df.rows)}

(* lines 113-114 *)
min_year(df) == Min(YearsOf(df))
max_year(df) == Max(YearsOf(df))

(* line 118 *)
year_df(df, selected_year) == SelectSeq(df.rows, LAMBDA r : r.year = selected_year)

(* dtype of the value column of a slice: float64, or object holding str *)
AllNum(rows) == \A i \in 1..Len(rows) : rows[i].co2_per_capita.t = "num"
AllTxt(rows) == \A i \in 1..Len(rows) : rows[i].co2_per_capita.t = "txt"

RECURSIVE SumNum(_)
SumNum(rows) ==
    IF rows = << >> THEN 0 ELSE rows[1].co2_per_capita.n + SumNum(Tail(rows))

RECURSIVE ConcatTxt(_)
ConcatTxt(rows) ==
    IF rows = << >> THEN << >> ELSE rows[1].co2_per_capita.c \o ConcatTxt(Tail(rows))

(* The pandas releases differ on Series.mean() of an object column of str:  *)
(* "strict" raises TypeError, "concat" sums the strings by concatenation,  *)
(* converts the result with float() and divides by the count.  A column    *)
(* mixing float and str raises in both.  sum is in tenths.                 *)
PandasMean == {"strict", "concat"}

mean(rows, lib) ==
    IF AllNum(rows) THEN [ok |-> TRUE, sum |-> SumNum(rows), n |-> Len(rows)]
    ELSE IF AllTxt(rows) /\ lib = "concat" /\ FloatOf(ConcatTxt(rows)).ok
         THEN [ok |-> TRUE, sum |-> FloatOf(ConcatTxt(rows)).n, n |-> Len(rows)]
    ELSE [ok |-> FALSE, sum |-> 0, n |-> Len(rows)]

(* line 123: f"{m:.2f} t", the mean sum/n (tenths) rounded to hundredths *)
Format2f(sum, n) == [t |-> "fmt", h |-> (20 * sum + n) \div (2 * n)]
NA == [t |-> "na"]
NoMetric == [t |-> "none"]

(* line 169: sort_values(ascending=False); quicksort leaves the order of   *)
(* ties open, so every descending arrangement is a possible result; str    *)
(* against float does not compare and raises TypeError.                    *)
ValueGE(a, b) ==
    IF a.t = "num" THEN a.n >= b.n ELSE ~ LexLess(a.c, b.c)

Perms(n) == {p \in [1..n -> 1..n] : \A i, j \in 1..n : i # j => p[i] # p[j]}

sort_values(rows) ==
    IF ~ (AllNum(rows) \/ AllTxt(rows)) THEN {[ok |-> FALSE, rows |-> << >>]}
    ELSE {[ok |-> TRUE, rows |-> [i \in 1..Len(rows) |-> rows[p[i]]]] :
            p \in {q \in Perms(Len(rows)) :
                    \A i, j \in 1..Len(rows) :
                        i < j => ValueGE(rows[q[i]].co2_per_capita,
                                         rows[q[j]].co2_per_capita)}}

(* line 169: head(10) *)
head(rows, n) == SubSeq(rows, 1, IF Len(rows) < n THEN Len(rows) ELSE n)

(* line 198: top_10['co2_per_capita'].max() * 1.15; NaN for no rows,      *)
(* TypeError for str                                                       *)
AxisRangeOk(rows) == AllNum(rows)

Blank ==
    [loaded |-> FALSE, escaped |-> FALSE, raised |-> FALSE, notice |-> FALSE,
     controls |-> FALSE, df |-> EmptyDF, selected_year |-> 0, count |-> 0,
     avg |-> NoMetric, map |-> FALSE, ranked |-> FALSE, top_10 |-> << >>,
     bar |-> FALSE]

(* lines 107-209 for the table df, the slider value, one pandas release    *)
(* and one outcome of the sort                                             *)
Page(df, selected_year, lib, sorted) ==
    LET got == [Blank EXCEPT !.loaded = TRUE, !.df = df]
        slice == year_df(df, selected_year)
        m == mean(slice, lib)
        shown == [got EXCEPT !.controls = TRUE,
                             !.selected_year = selected_year,
                             !.count = Len(slice)]
    IN  IF Empty(df) THEN [got EXCEPT !.notice = TRUE]
        ELSE IF slice # << >> /\ ~ m.ok THEN [shown EXCEPT !.raised = TRUE]
        ELSE LET metrics == [shown EXCEPT
                               !.avg = IF slice # << >>
                                       THEN Format2f(m.sum, m.n) ELSE NA,
                               !.map = TRUE]
             IN  IF ~ sorted.ok THEN [metrics EXCEPT !.raised = TRUE]
                 ELSE LET top == [metrics EXCEPT !.ranked = TRUE,
                                                  !.top_10 = head(sorted.rows, TopN)]
                      IN  IF ~ AxisRangeOk(top.top_10)
                          THEN [top EXCEPT !.raised = TRUE]
                          ELSE [top EXCEPT !.bar = TRUE]

(* --------------------------- memoization ------------------------------- *)
Miss == [t |-> "miss", df |-> EmptyDF]
Hit(df) == [t |-> "hit", df |-> df]

(* mutant: nothing is kept *)
cache_data_nostore(old, call) == old

(* mutant: only a table with rows is kept *)
cache_data_nonempty(old, call) ==
    IF old.t = "hit" \/ call.raised \/ Empty(call.df) THEN old ELSE Hit(call.df)

(* lines 58-59: st.cache_data keeps whatever the function returned, under  *)
(* the one key of a function without parameters; a raised call stores      *)
(* nothing                                                                 *)
cache_data(old, call) ==
    IF old.t = "hit" \/ call.raised THEN old ELSE Hit(call.df)

(* line 105: the memoized call *)
Call(c, resp) == IF c.t = "hit" THEN Returned(c.df) ELSE fetch_co2_data(resp)

(* --------------------------- responses --------------------------------- *)
Sessions == 1..NumSessions

Json(data) == [kind |-> "json", data |-> data]
TransportError == [kind |-> "transport_error", data |-> NULL]
NotJson == [kind |-> "not_json", data |-> NULL]
Envelope(records) == Json(Arr(<<Meta, Arr(records)>>))

US == Obj("US", "United States")
FR == Obj("FR", "France")
Y2019 == Txt(<<"2", "0", "1", "9">>)
Y2021 == Txt(<<"2", "0", "2", "1">>)
YR1990 == Txt(<<"Y", "R", "1", "9", "9", "0">>)
T152 == Txt(<<"1", "5", ".", "2">>)
T30 == Txt(<<"3", ".", "0">>)
T9 == Txt(<<"9">>)
T15 == Txt(<<"1", "5">>)

(* responses that are no table: failures and malformed envelopes *)
Malformed ==
    {TransportError, NotJson,
     Json(NULL), Json(Num(0)),
     Json([t |-> "obj", nkeys |-> 1]), Json([t |-> "obj", nkeys |-> 2]),
     Json(Arr(<< >>)), Json(Arr(<<Meta>>)),
     Json(Arr(<<Meta, NULL>>)), Json(Arr(<<Meta, Meta>>)),
     Json(Arr(<<Meta, [t |-> "obj", nkeys |-> 1]>>)),
     Envelope(<< >>)}

(* observations varying the country object and the code *)
ObsCodes ==
    {Obs(c, i, Y2019, v) :
        c \in {ABSENT, US, FR},
        i \in {ABSENT, NULL, Str(""), Str("USA"), Str("FRA")},
        v \in {NULL, Num(90)}}

(* observations varying the value and the year *)
ObsValues ==
    {Obs(US, i, d, v) :
        i \in {Str("USA"), Str("FRA")},
        d \in {Y2019, Y2021},
        v \in {ABSENT, NULL, Num(90), Num(152), T9, T15}}

(* observations varying the period label *)
ObsDates ==
    {Obs(US, Str("USA"), d, v) :
        d \in {ABSENT, NULL, Y2019, Y2021, YR1990, Num(2020)},
        v \in {NULL, Num(90)}}

(* the scenario of the specification: no countryiso3code, codes as ids *)
Scenario ==
    Envelope(<<Obs(Obj("USA", "United States"), ABSENT, Y2019, T152),
               Obs(Obj("", "?"), ABSENT, Y2019, T30),
               Obs(Obj("FRA", "France"), ABSENT, Y2019, NULL)>>)

(* the same observations as the World Bank delivers them *)
ScenarioIso ==
    Envelope(<<Obs(Obj("US", "United States"), Str("USA"), Y2019, T152),
               Obs(Obj("", "?"), Str(""), Y2019, T30),
               Obs(Obj("FR", "France"), Str("FRA"), Y2019, NULL)>>)

Good ==
    Envelope(<<Obs(US, Str("USA"), Y2019, Num(152)),
               Obs(FR, Str("FRA"), Y2021, Num(90))>>)

AllNull == Envelope(<<Obs(US, Str("USA"), Y2019, NULL)>>)

LifeResponses ==
    {TransportError, NotJson, Json(Arr(<<Meta>>)), AllNull, Good, ScenarioIso}

(* ----------------------------- actions --------------------------------- *)
TypeOK ==
    /\ requests \in 0..MaxRequests
    /\ cache.t \in {"miss", "hit"}
    /\ \A s \in Sessions : Cardinality(slider[s]) <= 1

(* one run of the script, lines 104-209, in session s with the slider's    *)
(* stored value w ({} when the widget is new)                              *)
ScriptRun(s, w) ==
    LET call == Call(cache, source)
        df == call.df
        selected_year == IF w = {} THEN max_year(df) ELSE CHOOSE y \in w : TRUE
    IN  /\ cache.t = "hit" \/ requests < MaxRequests
        /\ requests' = IF cache.t = "hit" THEN requests ELSE requests + 1
        /\ cache' = cache_data(cache, call)
        /\ IF call.raised
           THEN /\ view' = [view EXCEPT ![s] =
                              [Blank EXCEPT !.loaded = TRUE, !.escaped = TRUE]]
                /\ slider' = [slider EXCEPT ![s] = {}]
           ELSE IF Empty(df)
           THEN /\ view' = [view EXCEPT ![s] = Page(df, 0, "strict", [ok |-> TRUE, rows |-> << >>])]
                /\ slider' = [slider EXCEPT ![s] = {}]
           ELSE /\ \E lib \in PandasMean :
                     \E sorted \in sort_values(year_df(df, selected_year)) :
                        view' = [view EXCEPT ![s] = Page(df, selected_year, lib, sorted)]
                /\ slider' = [slider EXCEPT ![s] = {selected_year}]
        /\ UNCHANGED source

(* a browser opens or reloads the page: a new session state, default year *)
PageLoad(s) == ScriptRun(s, {})

(* the user moves the year slider, which re-runs the script *)
SliderChange(s, y) ==
    /\ view[s].controls
    /\ y \in min_year(view[s].df)..max_year(view[s].df)
    /\ y # view[s].selected_year
    /\ ScriptRun(s, {y})

(* the external source answers differently from now on *)
SourceChanges ==
    /\ \E r \in LifeResponses : r # source /\ source' = r
    /\ UNCHANGED <<cache, requests, slider, view>>

InitCommon ==
    /\ cache = Miss
    /\ requests = 0
    /\ slider = [s \in Sessions |-> {}]
    /\ view = [s \in Sessions |-> Blank]

Init == source \in LifeResponses /\ InitCommon

Next ==
    \/ \E s \in Sessions : PageLoad(s)
    \/ \E s \in Sessions : \E y \in 1990..2021 : SliderChange(s, y)
    \/ SourceChanges

Spec == Init /\ [][Next]_vars

(* the builder and the page over every bounded response of one source *)
ObsFamilies == {ObsCodes, ObsValues, ObsDates}

InitBuild ==
    /\ \/ source \in Malformed \cup {Scenario, ScenarioIso}
       \/ \E F \in ObsFamilies : \E k \in 1..MaxObs : \E r \in [1..k -> F] :
             source = Envelope(r)
    /\ InitCommon

NextBuild ==
    \/ PageLoad(1)
    \/ \E y \in 1990..2021 : SliderChange(1, y)

SpecBuild == InitBuild /\ [][NextBuild]_vars

(* ------------------------------ claims --------------------------------- *)
(* the observation records of a response, << >> when it holds none *)
RawObs(resp) ==
    IF /\ resp.kind = "json"
       /\ resp.data.t = "arr"
       /\ Len(resp.data.items) >= 2
       /\ resp.data.items[2].t = "arr"
    THEN resp.data.items[2].items
    ELSE << >>

(* no observation of the response carries the field k *)
FieldMissing(resp, k) == \A i \in 1..Len(RawObs(resp)) : RawObs(resp)[i][k] = ABSENT

(* a response that is no table: a failure, a malformed envelope, no         *)
(* observations, or observations without one of the expected fields        *)
NoTable(resp) ==
    \/ resp \in Malformed
    \/ \E k \in {"country", "countryiso3code", "date", "value"} : FieldMissing(resp, k)

(* C1: whatever the request yields, the call returns to the script (no      *)
(* exception leaves fetch_co2_data), and for a transport failure, a body   *)
(* that is not JSON, a top level shorter than 2, empty or missing          *)
(* observations and observations without an expected field the script gets *)
(* the empty table pd.DataFrame() and shows the notice.                    *)
C1_SentinelNeverRaises ==
    \A s \in Sessions :
        view[s].loaded =>
            /\ ~ view[s].escaped
            /\ NoTable(source) => view[s].df = EmptyDF /\ view[s].notice

C1_Witness ==
    /\ view[1].loaded
    /\ \/ source = TransportError
       \/ RawObs(source) # << >> /\ FieldMissing(source, "date")

(* an observation the filters of lines 91-92 let through *)
Clean(o) ==
    /\ o.value.t \notin {"absent", "null"}
    /\ o.countryiso3code.t \notin {"absent", "null"}
    /\ o.countryiso3code # Str("")

(* C2: every row of the returned table has a value that is not null and a   *)
(* country code that is neither null nor empty, and the table has no more  *)
(* rows than the response has observations with both.                      *)
C2_NoNullValueNoEmptyCode ==
    \A s \in Sessions :
        view[s].loaded =>
            LET rows == view[s].df.rows
                raw == RawObs(source)
            IN  /\ \A i \in 1..Len(rows) :
                      /\ rows[i].co2_per_capita.t \notin {"absent", "null"}
                      /\ rows[i].economy.t \notin {"absent", "null"}
                      /\ rows[i].economy # Str("")
                /\ Len(rows) <= Cardinality({i \in 1..Len(raw) : Clean(raw[i])})

C2_Witness ==
    /\ view[1].loaded
    /\ Len(view[1].df.rows) = 1
    /\ Len(RawObs(source)) = 2
    /\ RawObs(source)[1].countryiso3code = Str("")
    /\ RawObs(source)[1].value = Num(90)

C4_PrefixedYearKept ==
    \A s \in Sessions :
        view[s].loaded =>
            \A i \in 1..Len(RawObs(source)) :
                RawObs(source)[i].date = YR1990 /\ Clean(RawObs(source)[i]) =>
                    \E j \in 1..Len(view[s].df.rows) : view[s].df.rows[j].year = 1990

(* C5: every row of the returned table has an integer year and a numeric    *)
(* value, also when the source delivers the value as text.                 *)
C5_YearIntValueNumber ==
    \A s \in Sessions :
        view[s].loaded =>
            \A i \in 1..Len(view[s].df.rows) :
                /\ view[s].df.rows[i].year \in Int
                /\ view[s].df.rows[i].co2_per_capita.t = "num"

(* the quantity a value stands for, in tenths *)
Quantity(v) == IF v.t = "num" THEN v.n ELSE FloatOf(v.c).n

(* C6: the top-10 projection of the selected year's rows has at most 10     *)
(* rows, is ordered by value non-increasing, holds only rows of the year's *)
(* slice, and no row left out has a greater value than a row in it.        *)
C6_TopTen ==
    \A s \in Sessions :
        view[s].ranked =>
            LET slice == year_df(view[s].df, view[s].selected_year)
                top == view[s].top_10
            IN  /\ Len(top) <= 10
                /\ \A i, j \in 1..Len(top) :
                      i < j => Quantity(top[i].co2_per_capita)
                                 >= Quantity(top[j].co2_per_capita)
                /\ \A i \in 1..Len(top) : \E k \in 1..Len(slice) : slice[k] = top[i]
                /\ Len(top) = IF Len(slice) < 10 THEN Len(slice) ELSE 10
                /\ \A k \in 1..Len(slice) :
                      (\A i \in 1..Len(top) : top[i] # slice[k]) =>
                          \A i \in 1..Len(top) :
                              Quantity(slice[k].co2_per_capita)
                                <= Quantity(top[i].co2_per_capita)

(* C7: the table is built once: at most one request is ever issued, the     *)
(* memoized table never changes once stored, and every run of the script,  *)
(* in any session, receives the stored table.                              *)
C7_BuiltOnce ==
    [][/\ requests' <= 1
       /\ cache.t = "hit" => cache' = cache
       /\ \A s \in Sessions :
             view'[s].loaded => cache'.t = "hit" /\ view'[s].df = cache'.df]_vars

C7_Witness ==
    /\ requests = 1
    /\ view[1].controls /\ view[2].controls
    /\ view[1].selected_year # view[2].selected_year
    /\ view[1].df = view[2].df

(* C8: with a table that has rows, a selected year without records shows    *)
(* the count 0 and the mean "N/A" and the run completes both charts; a     *)
(* year with records shows their number and the arithmetic mean of their   *)
(* values (to the two decimals of the format).                             *)
RECURSIVE SumQuantity(_)
SumQuantity(rows) ==
    IF rows = << >> THEN 0
    ELSE Quantity(rows[1].co2_per_capita) + SumQuantity(Tail(rows))

Abs(x) == IF x < 0 THEN -x ELSE x

C8_Metrics ==
    \A s \in Sessions :
        view[s].loaded /\ ~ Empty(view[s].df) =>
            LET slice == year_df(view[s].df, view[s].selected_year)
                n == Len(slice)
            IN  /\ view[s].count = n
                /\ n = 0 =>
                      /\ view[s].avg = NA
                      /\ view[s].map /\ view[s].bar /\ ~ view[s].raised
                /\ n > 0 =>
                      /\ view[s].avg.t = "fmt"
                      /\ 2 * Abs(view[s].avg.h * n - 10 * SumQuantity(slice)) <= n

(* C9: the returned table holds at most one row for a pair of country code  *)
(* and year.                                                               *)
C9_OneRowPerCodeAndYear ==
    \A s \in Sessions :
        view[s].loaded =>
            \A i, j \in 1..Len(view[s].df.rows) :
                i # j =>
                    \/ view[s].df.rows[i].economy # view[s].df.rows[j].economy
                    \/ view[s].df.rows[i].year # view[s].df.rows[j].year

(* C10: once a run has received an empty table, no later run issues a       *)
(* request, and every run that has loaded received that same empty table   *)
(* and shows the notice without the slider, the metrics and the charts,    *)
(* whatever the source would answer by then.                               *)
C10_FailureMemoized ==
    [][\A s \in Sessions :
          view[s].loaded /\ Empty(view[s].df) =>
              /\ requests' = requests
              /\ \A t \in Sessions :
                    view'[t].loaded =>
                        /\ view'[t].df = view[s].df
                        /\ view'[t].notice
                        /\ ~ view'[t].controls
                        /\ ~ view'[t].map
                        /\ ~ view'[t].bar]_vars

C10_Witness ==
    /\ source = Good
    /\ cache = Hit(EmptyDF)
    /\ requests = 1
    /\ view[1].loaded /\ view[1].notice
    /\ view[2].loaded /\ view[2].notice

====
